---- MODULE Spec2Model ----
(***************************************************************************)
(* Model of src/sub_enum.py: the SecurityTrails client (construction, the  *)
(* retrying request layer _get/_post, list_subdomains, search_subdomains)  *)
(* and merge_sources.                                                      *)
(*                                                                         *)
(* Strings are sequences of one-character strings, so that str.endswith,   *)
(* concatenation and Python's code-point ordering are computed, not        *)
(* assumed.  JSON values are tagged records [t |-> tag, v |-> value].      *)
(* Durations are in tenths of a second (backoff 1.0 = 10, pause 0.3 = 3).  *)
(***************************************************************************)
EXTENDS Integers, Sequences, FiniteSets, TLC

VARIABLES
    client,         \* the constructed client (api_key, base, timeout) or NoClient
    pc,             \* "new" | "failed" | "idle" | "request" | "done" | "call"
    op,             \* frame of the current (or last) call: its name and arguments
    req,            \* the _get/_post call in progress: verb, path, body, retries, backoff
    attempt,        \* loop variable of the retry loop
    responses,      \* what the transport answered to the attempts of this _get/_post call
    sleeps,         \* durations passed to time.sleep inside this _get/_post call
    sent,           \* bodies of the page requests search_subdomains has issued
    delivered,      \* payloads the transport served to the successful page requests
    all_subdomains, \* search_subdomains: the aggregate set
    raw_pages,      \* search_subdomains: the raw page list
    pauses,         \* search_subdomains: durations of the fixed pauses taken
    result,         \* outcome of the call: status, hosts, raw, error
    main,           \* the command-line run: its stage, arguments, exit status
    stdout,         \* lines printed by the command-line run
    outfile         \* the file named by --out

vars == <<client, pc, op, req, attempt, responses, sleeps, sent,
          delivered, all_subdomains, raw_pages, pauses, result,
          main, stdout, outfile>>

\* the state of the command-line run
cli == <<main, stdout, outfile>>

----------------------------------------------------------------------------
(* Bounds *)
MaxRetries == 3      \* largest retries argument of a direct _get/_post call
MaxPages   == 4      \* largest max_pages argument of search_subdomains
MaxLists   == 2      \* largest number of arguments of merge_sources
MaxLen     == 2      \* longest list passed to merge_sources

(* Program constants *)
DEFAULT_RETRIES   == 3     \* retries default of _get/_post
DEFAULT_BACKOFF   == 10    \* backoff default 1.0
DEFAULT_PAGE_SIZE == 100   \* page_size default
DEFAULT_TIMEOUT   == 15    \* timeout default
PAGE_PAUSE        == 3     \* time.sleep(0.3)

----------------------------------------------------------------------------
(* Strings *)

\* The characters in use, in increasing code-point order ('-' 45, '.' 46,
\* '/' 47, upper case 65.., lower case 97..).
Ascii == <<"-", ".", "/", "A", "I", "P", "a", "c", "e", "g", "i", "k", "l",
           "m", "o", "p", "r", "u", "v", "w", "x">>

CodePoint(c) == CHOOSE i \in 1..Len(Ascii) : Ascii[i] = c

Range(s) == {s[i] : i \in 1..Len(s)}

\* a < b for Python str: first differing code point decides, a proper prefix is smaller
LexLess(a, b) ==
    \E i \in 1..(Len(a) + 1) :
        /\ \A j \in 1..(i - 1) : j <= Len(b) /\ a[j] = b[j]
        /\ \/ i = Len(a) + 1 /\ Len(b) >= i
           \/ i <= Len(a) /\ i <= Len(b) /\ CodePoint(a[i]) < CodePoint(b[i])

\* str.endswith
EndsWith(s, suffix) ==
    /\ Len(suffix) <= Len(s)
    /\ SubSeq(s, Len(s) - Len(suffix) + 1, Len(s)) = suffix

\* str.rstrip("/")
RECURSIVE RStripSlash(_)
RStripSlash(s) ==
    IF s # <<>> /\ s[Len(s)] = "/" THEN RStripSlash(SubSeq(s, 1, Len(s) - 1)) ELSE s

RECURSIVE Descending(_)
Descending(S) ==
    IF S = {} THEN <<>>
    ELSE LET m == CHOOSE x \in S : \A y \in S : ~LexLess(x, y)
         IN  <<m>> \o Descending(S \ {m})

\* sorted(a set of str)
RECURSIVE Sorted(_)
Sorted(S) ==
    IF S = {} THEN <<>>
    ELSE LET m == CHOOSE x \in S : \A y \in S : ~LexLess(y, x)
         IN  <<m>> \o Sorted(S \ {m})

dot         == <<".">>
com         == <<"c", "o", "m">>
example_com == <<"e", "x", "a", "m", "p", "l", "e">> \o dot \o com
www         == <<"w", "w", "w">>
api         == <<"a", "p", "i">>
API         == <<"A", "P", "I">>
api_example_com  == api \o dot \o example_com
API_example_com  == API \o dot \o example_com
www_example_com  == www \o dot \o example_com
evil_example_com == <<"e", "v", "i", "l", "-">> \o example_com
api_org          == api \o dot \o <<"o", "r", "g">>

----------------------------------------------------------------------------
(* Python / JSON values *)
JNull     == [t |-> "null"]
JNum(n)   == [t |-> "num", v |-> n]
JStr(s)   == [t |-> "str", v |-> s]
JList(l)  == [t |-> "list", v |-> l]
JDoc(d)   == [t |-> "doc", v |-> d]
EmptyDoc  == JDoc(<<>>)

\* bool(x)
Truthy(x) ==
    CASE x.t = "null" -> FALSE
      [] x.t = "num"  -> x.v # 0
      [] x.t = "str"  -> x.v # <<>>
      [] x.t = "list" -> x.v # <<>>
      [] x.t = "doc"  -> DOMAIN x.v # {}

\* dict.get(k) and dict.get(k, default)
GetOr(d, k, default) == IF k \in DOMAIN d.v THEN d.v[k] ELSE default
Get(d, k) == GetOr(d, k, JNull)

\* `for x in v`: None and numbers are not iterable (TypeError); a str yields
\* its characters.  No document is iterated in the payloads below.
NotIterable(v) == v.t \in {"null", "num"}
Items(v) ==
    IF v.t = "list" THEN v.v
    ELSE IF v.t = "str" THEN [i \in 1..Len(v.v) |-> JStr(<<v.v[i]>>)]
    ELSE <<>>


----------------------------------------------------------------------------
(* Inputs: what callers pass and what the transport may answer *)

NoClient == [t |-> "none"]
PyNone   == JNull

key_arg == <<"k", "a">>      \* a credential passed explicitly
key_env == <<"k", "e">>      \* a credential found in the environment
base_u  == <<"u">>           \* a base URL

ApiKeyArgs == {PyNone, JStr(<<>>), JStr(key_arg)}
EnvValues  == {PyNone, JStr(<<>>), JStr(key_env)}
BaseUrls   == {base_u, base_u \o <<"/">>, base_u \o <<"/", "/">>}

Domains   == {example_com, com}
PageSizes == {DEFAULT_PAGE_SIZE, 1}
Backoffs  == {0, 5, DEFAULT_BACKOFF}

\* bodies the listing endpoint may answer with (status 200)
ListBodies == {
    JDoc([subdomains |-> JList(<<JStr(www), JStr(api_example_com), JStr(<<>>)>>)]),
    JDoc([subdomains |-> JList(<<JStr(api), JStr(API), JStr(api)>>)]),
    EmptyDoc,
    JList(<<>>),
    JDoc([subdomains |-> JList(<<JNum(1)>>)]),
    JDoc([subdomains |-> JNull]) }

\* bodies the search endpoint may answer with (status 200)
PageBodies == {
    JDoc([records |-> JList(<<>>)]),
    JDoc([records |-> JList(<<JDoc([hostname |-> JStr(api_example_com),
                                   domain   |-> JStr(example_com)]),
                             JDoc([hostname |-> JStr(evil_example_com)]),
                             JDoc([hostname |-> JStr(<<>>),
                                   domain   |-> JStr(www_example_com)]),
                             JDoc([domain |-> JStr(API_example_com)])>>)]),
    JDoc([records |-> JList(<<JDoc([hostname |-> JStr(api_org)])>>)]),
    EmptyDoc,
    JDoc([records |-> JNull]),
    JDoc([records |-> JList(<<JStr(www)>>)]),
    JList(<<>>) }

\* bodies answered to a direct _get/_post call
AnyBodies == {EmptyDoc, JDoc([records |-> JList(<<>>)])}

Hostnames == {api_example_com, API_example_com}

\* all sequences over S of length at most n
SeqsUpTo(S, n) == UNION {[1..k -> S] : k \in 0..n}

\* an argument of merge_sources: a list of hostnames, or None
HostLists == {PyNone} \cup {JList(l) : l \in SeqsUpTo(Hostnames, MaxLen)}

----------------------------------------------------------------------------
(* Construction *)

\* api_key or os.getenv("SECURITYTRAILS_APIKEY")
ResolveArgOnly(api_key, environ) == api_key
ResolveCredential(api_key, environ) == IF Truthy(api_key) THEN api_key ELSE environ

NoResult == [status |-> "none", hosts |-> <<>>, raw |-> JNull, error |-> "none"]
Returned(hosts, raw) == [status |-> "returned", hosts |-> hosts, raw |-> raw, error |-> "none"]
Raised(error) == [status |-> "raised", hosts |-> <<>>, raw |-> JNull, error |-> error]

NoReq == [verb |-> "none"]

\* the module imported as a library: no command-line run, no --out file
NoMain == [stage |-> "none"]
Absent == [t |-> "absent"]

Init ==
    /\ client = NoClient
    /\ pc = "new"
    /\ op = [name |-> "none"]
    /\ req = NoReq
    /\ attempt = 0
    /\ responses = <<>>
    /\ sleeps = <<>>
    /\ sent = <<>>
    /\ delivered = <<>>
    /\ all_subdomains = {}
    /\ raw_pages = <<>>
    /\ pauses = <<>>
    /\ result = NoResult
    /\ main = NoMain
    /\ stdout = <<>>
    /\ outfile = Absent

\* SecurityTrailsClient.__init__; environ is what os.getenv finds for
\* SECURITYTRAILS_APIKEY
Construct ==
    /\ pc = "new"
    /\ \E api_key \in ApiKeyArgs, environ \in EnvValues, base_url \in BaseUrls :
        LET key == ResolveCredential(api_key, environ) IN
        /\ op' = [name |-> "__init__", api_key |-> api_key, environ |-> environ,
                  base_url |-> base_url, timeout |-> DEFAULT_TIMEOUT]
        /\ IF ~Truthy(key)
           THEN /\ pc' = "failed"
                /\ result' = Raised("ValueError")
                /\ client' = NoClient
           ELSE /\ pc' = "idle"
                /\ result' = NoResult
                /\ client' = [t |-> "client", api_key |-> key.v,
                              base |-> RStripSlash(base_url), timeout |-> DEFAULT_TIMEOUT]
    /\ UNCHANGED <<req, attempt, responses, sleeps, sent, delivered,
                   all_subdomains, raw_pages, pauses>>
    /\ UNCHANGED cli


----------------------------------------------------------------------------
(* The request layer: _get and _post *)

\* backoff * attempt
SleepConstant(backoff, n) == backoff
SleepFromZero(backoff, n) == backoff * (n - 1)
SleepFor(backoff, n) == backoff * n

\* `for attempt in range(1, retries + 1)`: attempt n is the last one
LastAttemptLate(n, retries) == n >= retries + 1
LastAttempt(n, retries) == n >= retries

Response(kind, payload) == [kind |-> kind, body |-> payload]

\* locals of a fresh call
FreshCall ==
    /\ sent' = <<>>
    /\ delivered' = <<>>
    /\ all_subdomains' = {}
    /\ raw_pages' = <<>>
    /\ pauses' = <<>>

\* entry of _get/_post: an empty range raises at once
Enter(r) ==
    /\ req' = r
    /\ responses' = <<>>
    /\ sleeps' = <<>>
    /\ attempt' = 1

Callable == pc \in {"idle", "done"}

\* a direct call of _get(path, params, retries, backoff)
CallGet ==
    /\ Callable
    /\ \E retries \in 0..MaxRetries, backoff \in Backoffs :
        /\ op' = [name |-> "_get", retries |-> retries, backoff |-> backoff]
        /\ Enter([verb |-> "GET", path |-> <<"/">>, body |-> JNull,
                  retries |-> retries, backoff |-> backoff])
        /\ IF retries = 0
           THEN pc' = "done" /\ result' = Raised("RuntimeError")
           ELSE pc' = "request" /\ result' = NoResult
    /\ FreshCall
    /\ UNCHANGED client
    /\ UNCHANGED cli

\* a direct call of _post(path, json_body, retries, backoff)
CallPost ==
    /\ Callable
    /\ \E retries \in 0..MaxRetries, backoff \in Backoffs :
        /\ op' = [name |-> "_post", retries |-> retries, backoff |-> backoff]
        /\ Enter([verb |-> "POST", path |-> <<"/">>, body |-> EmptyDoc,
                  retries |-> retries, backoff |-> backoff])
        /\ IF retries = 0
           THEN pc' = "done" /\ result' = Raised("RuntimeError")
           ELSE pc' = "request" /\ result' = NoResult
    /\ FreshCall
    /\ UNCHANGED client
    /\ UNCHANGED cli

----------------------------------------------------------------------------
(* list_subdomains *)

\* full = s if s.endswith(domain) else f"{s}.{domain}" if s else None
\* (None and "" are both dropped by `if full`; <<>> stands for either)
FullNameAlwaysJoin(s, domain) == IF s # <<>> THEN s \o dot \o domain ELSE <<>>
FullName(s, domain) ==
    IF EndsWith(s, domain) THEN s
    ELSE IF s # <<>> THEN s \o dot \o domain
    ELSE <<>>

\* the loop over data['subdomains']; a fragment that is no str has no endswith
RECURSIVE ListLoop(_, _, _, _)
ListLoop(items, domain, i, subdomains) ==
    IF i > Len(items) THEN [err |-> "none", acc |-> subdomains]
    ELSE IF items[i].t # "str" THEN [err |-> "AttributeError", acc |-> subdomains]
    ELSE LET full == FullName(items[i].v, domain)
         IN  ListLoop(items, domain, i + 1,
                      IF full # <<>> THEN Append(subdomains, full) ELSE subdomains)

ParseList(data, domain) ==
    IF data.t = "doc" /\ "subdomains" \in DOMAIN data.v
    THEN IF NotIterable(data.v.subdomains)
         THEN [err |-> "TypeError", acc |-> <<>>]
         ELSE ListLoop(Items(data.v.subdomains), domain, 1, <<>>)
    ELSE [err |-> "none", acc |-> <<>>]

\* the part of list_subdomains after self._get(path) has returned data
ListResult(data, domain) ==
    LET parsed == ParseList(data, domain)
    IN  IF parsed.err # "none" THEN Raised(parsed.err)
        ELSE Returned(Sorted(Range(parsed.acc)), data)

\* a listing call that folds the request path into the client's base URL
CallListRebasing ==
    /\ Callable
    /\ \E domain \in Domains :
        /\ op' = [name |-> "list", domain |-> domain]
        /\ Enter([verb |-> "GET", path |-> <<"/domain/", domain, "/subdomains">>,
                  body |-> JNull, retries |-> DEFAULT_RETRIES,
                  backoff |-> DEFAULT_BACKOFF])
        /\ client' = [client EXCEPT !.base = client.base \o <<"/">> \o domain]
    /\ pc' = "request"
    /\ result' = NoResult
    /\ FreshCall
    /\ UNCHANGED cli

CallList ==
    /\ Callable
    /\ \E domain \in Domains :
        /\ op' = [name |-> "list", domain |-> domain]
        /\ Enter([verb |-> "GET", path |-> <<"/domain/", domain, "/subdomains">>,
                  body |-> JNull, retries |-> DEFAULT_RETRIES,
                  backoff |-> DEFAULT_BACKOFF])
    /\ pc' = "request"
    /\ result' = NoResult
    /\ FreshCall
    /\ UNCHANGED client
    /\ UNCHANGED cli

----------------------------------------------------------------------------
(* search_subdomains *)

\* r.get("hostname") or r.get("domain")
RecordHostDomainFirst(r) ==
    IF Truthy(Get(r, "domain")) THEN Get(r, "domain") ELSE Get(r, "hostname")
RecordHost(r) ==
    IF Truthy(Get(r, "hostname")) THEN Get(r, "hostname") ELSE Get(r, "domain")

\* the loop over records; a record that is no dict has no get, a hostname
\* that is truthy but no str has no endswith
RECURSIVE PageLoop(_, _, _, _)
PageLoop(records, domain, i, all) ==
    IF i > Len(records) THEN [err |-> "none", all |-> all]
    ELSE IF records[i].t # "doc" THEN [err |-> "AttributeError", all |-> all]
    ELSE LET hostname == RecordHost(records[i]) IN
         IF ~Truthy(hostname) THEN PageLoop(records, domain, i + 1, all)
         ELSE IF hostname.t # "str" THEN [err |-> "AttributeError", all |-> all]
         ELSE PageLoop(records, domain, i + 1,
                       IF EndsWith(hostname.v, domain)
                       THEN all \cup {hostname.v} ELSE all)

\* `if not records: break`
NeverStops(records) == FALSE
StopsPagination(records) == ~Truthy(records)

\* raw_pages.append(resp)
AppendPage(pages, resp) == Append(pages, resp)

\* the body of the page loop after self._post(path, body) has returned resp
ProcessPage(resp, domain, all) ==
    IF resp.t # "doc" THEN [err |-> "AttributeError", all |-> all, stop |-> TRUE]
    ELSE LET records == GetOr(resp, "records", JList(<<>>)) IN
         IF NotIterable(records) THEN [err |-> "TypeError", all |-> all, stop |-> TRUE]
         ELSE LET looped == PageLoop(Items(records), domain, 1, all)
              IN  [err |-> looped.err, all |-> looped.all,
                   stop |-> StopsPagination(records)]

\* a body whose page number is never advanced
PageBodyFirstPage(domain, page_size, page) ==
    JDoc([filter |-> JDoc([apex_domain |-> JStr(domain)]),
          limit |-> JNum(page_size), page |-> JNum(1)])

PageBody(domain, page_size, page) ==
    JDoc([filter |-> JDoc([apex_domain |-> JStr(domain)]),
          limit |-> JNum(page_size), page |-> JNum(page)])

PageRequest(domain, page_size, page) ==
    [verb |-> "POST", path |-> <<"/domains/list">>,
     body |-> PageBody(domain, page_size, page),
     retries |-> DEFAULT_RETRIES, backoff |-> DEFAULT_BACKOFF]

SearchResult(all, pages) == Returned(Sorted(all), JDoc([pages |-> JList(pages)]))

CallSearch ==
    /\ Callable
    /\ \E domain \in Domains, page_size \in PageSizes, max_pages \in 0..MaxPages :
        /\ op' = [name |-> "search", domain |-> domain, page_size |-> page_size,
                  max_pages |-> max_pages]
        /\ IF max_pages = 0
           THEN /\ pc' = "done"
                /\ result' = SearchResult({}, <<>>)
                /\ Enter(NoReq)
                /\ sent' = <<>>
           ELSE /\ pc' = "request"
                /\ result' = NoResult
                /\ Enter(PageRequest(domain, page_size, 1))
                /\ sent' = <<PageBody(domain, page_size, 1)>>
    /\ delivered' = <<>>
    /\ all_subdomains' = {}
    /\ raw_pages' = <<>>
    /\ pauses' = <<>>
    /\ UNCHANGED client
    /\ UNCHANGED cli


----------------------------------------------------------------------------
(* Answers of the transport to the attempt in progress *)

BodiesFor(name) ==
    IF name = "list" THEN ListBodies
    ELSE IF name = "search" THEN PageBodies
    ELSE AnyBodies

\* status 200 and a decodable body: `return r.json()`, then the rest of the caller
Respond200 ==
    /\ pc = "request"
    /\ \E payload \in BodiesFor(op.name) :
        /\ CASE op.name \in {"_get", "_post"} ->
                  /\ pc' = "done"
                  /\ result' = Returned(<<>>, payload)
                  /\ responses' = Append(responses, Response("200", payload))
                  /\ UNCHANGED <<req, attempt, sleeps, sent, delivered,
                                 all_subdomains, raw_pages, pauses>>
             [] op.name = "list" ->
                  /\ pc' = "done"
                  /\ result' = ListResult(payload, op.domain)
                  /\ responses' = Append(responses, Response("200", payload))
                  /\ UNCHANGED <<req, attempt, sleeps, sent, delivered,
                                 all_subdomains, raw_pages, pauses>>
             [] op.name = "search" ->
                  LET page  == Len(sent)
                      pages == AppendPage(raw_pages, payload)
                      done  == ProcessPage(payload, op.domain, all_subdomains)
                  IN  /\ delivered' = Append(delivered, payload)
                      /\ raw_pages' = pages
                      /\ all_subdomains' = done.all
                      /\ IF done.err # "none"
                         THEN /\ pc' = "done"
                              /\ result' = Raised(done.err)
                              /\ responses' = Append(responses, Response("200", payload))
                              /\ UNCHANGED <<req, attempt, sleeps, sent, pauses>>
                         ELSE IF done.stop
                         THEN /\ pc' = "done"
                              /\ result' = SearchResult(done.all, pages)
                              /\ responses' = Append(responses, Response("200", payload))
                              /\ UNCHANGED <<req, attempt, sleeps, sent, pauses>>
                         ELSE /\ pauses' = Append(pauses, PAGE_PAUSE)
                              /\ IF page >= op.max_pages
                                 THEN /\ pc' = "done"
                                      /\ result' = SearchResult(done.all, pages)
                                      /\ responses' = Append(responses,
                                                              Response("200", payload))
                                      /\ UNCHANGED <<req, attempt, sleeps, sent>>
                                 ELSE /\ pc' = "request"
                                      /\ result' = NoResult
                                      /\ req' = PageRequest(op.domain, op.page_size, page + 1)
                                      /\ attempt' = 1
                                      /\ responses' = <<>>
                                      /\ sleeps' = <<>>
                                      /\ sent' = Append(sent, PageBody(op.domain,
                                                                      op.page_size, page + 1))
    /\ UNCHANGED <<client, op>>
    /\ UNCHANGED cli

\* an exhausted request that ends the operation with what was collected so far
NextAttemptReturnsPartial ==
    IF LastAttempt(attempt, req.retries)
    THEN /\ pc' = "done"
         /\ result' = SearchResult(all_subdomains, raw_pages)
         /\ UNCHANGED attempt
    ELSE /\ attempt' = attempt + 1
         /\ UNCHANGED <<pc, result>>

\* end of a loop iteration that did not return: next attempt, or the raise
\* after the loop
NextAttempt ==
    IF LastAttempt(attempt, req.retries)
    THEN /\ pc' = "done"
         /\ result' = Raised("RuntimeError")
         /\ UNCHANGED attempt
    ELSE /\ attempt' = attempt + 1
         /\ UNCHANGED <<pc, result>>

Untouched == <<client, op, req, sent, delivered, all_subdomains, raw_pages, pauses>>

\* a 429 that sleeps and retries without using up an attempt
Respond429NoCount ==
    /\ pc = "request"
    /\ responses' = Append(responses, Response("429", JNull))
    /\ sleeps' = Append(sleeps, SleepFor(req.backoff, attempt))
    /\ UNCHANGED <<attempt, pc, result>>
    /\ UNCHANGED Untouched
    /\ UNCHANGED cli

\* status 429: sleep backoff * attempt
Respond429 ==
    /\ pc = "request"
    /\ responses' = Append(responses, Response("429", JNull))
    /\ sleeps' = Append(sleeps, SleepFor(req.backoff, attempt))
    /\ NextAttempt
    /\ UNCHANGED Untouched
    /\ UNCHANGED cli

\* status 4xx/5xx other than 429: raise_for_status raises HTTPError, a
\* RequestException; the handler sleeps backoff * attempt
RespondError ==
    /\ pc = "request"
    /\ responses' = Append(responses, Response("error", JNull))
    /\ sleeps' = Append(sleeps, SleepFor(req.backoff, attempt))
    /\ NextAttempt
    /\ UNCHANGED Untouched
    /\ UNCHANGED cli

\* any other status below 400 (204, 304, ...): raise_for_status returns,
\* nothing is raised and nothing sleeps
RespondOther ==
    /\ pc = "request"
    /\ responses' = Append(responses, Response("other", JNull))
    /\ UNCHANGED sleeps
    /\ NextAttempt
    /\ UNCHANGED Untouched
    /\ UNCHANGED cli

\* session.get/post raises a RequestException (connection error, timeout)
TransportFault ==
    /\ pc = "request"
    /\ responses' = Append(responses, Response("fault", JNull))
    /\ sleeps' = Append(sleeps, SleepFor(req.backoff, attempt))
    /\ NextAttempt
    /\ UNCHANGED Untouched
    /\ UNCHANGED cli

\* status 200 with a body that is no JSON: r.json() raises.  Depending on the
\* installed requests the error is a RequestException (caught, retried) or a
\* plain ValueError (propagates).
RespondBadJson ==
    /\ pc = "request"
    /\ responses' = Append(responses, Response("badjson", JNull))
    /\ \/ /\ sleeps' = Append(sleeps, SleepFor(req.backoff, attempt))
          /\ NextAttempt
       \/ /\ pc' = "done"
          /\ result' = Raised("ValueError")
          /\ UNCHANGED <<sleeps, attempt>>
    /\ UNCHANGED Untouched
    /\ UNCHANGED cli

----------------------------------------------------------------------------
(* merge_sources *)

RECURSIVE MergeLoop(_, _, _)
MergeLoop(lists, i, merged) ==
    IF i > Len(lists) THEN merged
    ELSE MergeLoop(lists, i + 1,
                   merged \cup Range(IF Truthy(lists[i]) THEN lists[i].v ELSE <<>>))

RECURSIVE Concat(_, _)
Concat(lists, i) ==
    IF i > Len(lists) THEN <<>>
    ELSE (IF Truthy(lists[i]) THEN lists[i].v ELSE <<>>) \o Concat(lists, i + 1)

merge_concat(lists) == Concat(lists, 1)
merge_sources(lists) == Sorted(MergeLoop(lists, 1, {}))

\* a call of merge_sources(*lists), a module-level function that needs no client
InitMerge ==
    /\ pc = "call"
    /\ op \in {[name |-> "merge", lists |-> lists] :
                   lists \in SeqsUpTo(HostLists, MaxLists)}
    /\ client = NoClient
    /\ req = NoReq
    /\ attempt = 0
    /\ responses = <<>>
    /\ sleeps = <<>>
    /\ sent = <<>>
    /\ delivered = <<>>
    /\ all_subdomains = {}
    /\ raw_pages = <<>>
    /\ pauses = <<>>
    /\ result = NoResult
    /\ main = NoMain
    /\ stdout = <<>>
    /\ outfile = Absent

CallMerge ==
    /\ pc = "call"
    /\ op.name = "merge"
    /\ result' = Returned(merge_sources(op.lists), JNull)
    /\ pc' = "done"
    /\ UNCHANGED <<client, op, req, attempt, responses, sleeps, sent, delivered,
                   all_subdomains, raw_pages, pauses>>
    /\ UNCHANGED cli

----------------------------------------------------------------------------
Next ==
    \/ Construct
    \/ CallGet
    \/ CallPost
    \/ CallList
    \/ CallSearch
    \/ Respond200
    \/ Respond429
    \/ RespondError
    \/ RespondOther
    \/ TransportFault
    \/ RespondBadJson

Spec == Init /\ [][Next]_vars

\* merge_sources applied to every choice of arguments
SpecMerge == InitMerge /\ [][CallMerge]_vars


----------------------------------------------------------------------------
(* The command-line run (`if __name__ == "__main__"`) *)

MaxScript == 2       \* most pages the transport serves to one command-line search

DEFAULT_MAX_PAGES == 10    \* max_pages default

out_path == <<"o">>        \* a path given with --out
OldFile  == [t |-> "file", lines |-> <<<<"x">>>>]

\* argparse: --method defaults to list, --out and --api-key to None
Argv == [domain : Domains, method : {"list", "search"},
         out : {PyNone, JStr(<<>>), JStr(out_path)}, api_key : ApiKeyArgs]

\* client.search_subdomains(domain) run to its end against a transport that
\* serves the pages of `script` and then fails every attempt
RECURSIVE SearchRun(_, _, _, _, _, _)
SearchRun(script, page, domain, all, pages, max_pages) ==
    IF page > max_pages THEN SearchResult(all, pages)
    ELSE IF page > Len(script) THEN Raised("RuntimeError")
    ELSE LET done == ProcessPage(script[page], domain, all)
             kept == AppendPage(pages, script[page])
         IN  IF done.err # "none" THEN Raised(done.err)
             ELSE IF done.stop THEN SearchResult(done.all, kept)
             ELSE SearchRun(script, page + 1, domain, done.all, kept, max_pages)

\* what the selected operation may end with
Outcomes(method, domain) ==
    {Raised("RuntimeError"), Raised("ValueError")} \cup
    (IF method = "list"
     THEN {ListResult(data, domain) : data \in ListBodies}
     ELSE {SearchRun(script, 1, domain, {}, <<>>, DEFAULT_MAX_PAGES) :
               script \in SeqsUpTo(PageBodies, MaxScript)})

CountLine(n, domain, method) ==
    [line |-> "found", n |-> n, domain |-> domain, method |-> method]
HostLine(h) == [line |-> "host", text |-> h]
SavedLine(path) == [line |-> "saved", path |-> path]

\* lines 205-207: the count line, then one line per hostname
StdoutCountLast(subs, domain, method) ==
    [i \in 1..Len(subs) |-> HostLine(subs[i])] \o <<CountLine(Len(subs), domain, method)>>
StdoutOf(subs, domain, method) ==
    <<CountLine(Len(subs), domain, method)>> \o [i \in 1..Len(subs) |-> HostLine(subs[i])]

\* save_to_file: open(path, "w") and one line per host
SavedFile(hosts) == [t |-> "file", lines |-> hosts]

InitCli ==
    /\ main \in {[stage |-> "start", args |-> args, environ |-> environ,
                  runs |-> 0, exit |-> -1] :
                     args \in Argv, environ \in EnvValues}
    /\ stdout = <<>>
    /\ outfile \in {Absent, OldFile}
    /\ client = NoClient
    /\ pc = "new"
    /\ op = [name |-> "none"]
    /\ req = NoReq
    /\ attempt = 0
    /\ responses = <<>>
    /\ sleeps = <<>>
    /\ sent = <<>>
    /\ delivered = <<>>
    /\ all_subdomains = {}
    /\ raw_pages = <<>>
    /\ pauses = <<>>
    /\ result = NoResult

Library == <<req, attempt, responses, sleeps, sent, delivered, all_subdomains,
             raw_pages, pauses>>

\* line 196: client = SecurityTrailsClient(api_key=args.api_key); an uncaught
\* exception ends the process with status 1
MainConstruct ==
    /\ main.stage = "start"
    /\ LET key == ResolveCredential(main.args.api_key, main.environ) IN
        /\ op' = [name |-> "__init__", api_key |-> main.args.api_key,
                  environ |-> main.environ, base_url |-> base_u,
                  timeout |-> DEFAULT_TIMEOUT]
        /\ IF ~Truthy(key)
           THEN /\ pc' = "failed"
                /\ result' = Raised("ValueError")
                /\ client' = NoClient
                /\ main' = [main EXCEPT !.stage = "exited", !.exit = 1]
           ELSE /\ pc' = "idle"
                /\ result' = NoResult
                /\ client' = [t |-> "client", api_key |-> key.v,
                              base |-> RStripSlash(base_u), timeout |-> DEFAULT_TIMEOUT]
                /\ main' = [main EXCEPT !.stage = "constructed"]
    /\ UNCHANGED <<stdout, outfile>>
    /\ UNCHANGED Library

\* lines 199-202: the selected operation, run to its end
MainRun ==
    /\ main.stage = "constructed"
    /\ \E outcome \in Outcomes(main.args.method, main.args.domain) :
        /\ result' = outcome
        /\ main' = IF outcome.status = "raised"
                   THEN [main EXCEPT !.runs = @ + 1, !.stage = "exited", !.exit = 1]
                   ELSE [main EXCEPT !.runs = @ + 1, !.stage = "ran"]
    /\ op' = IF main.args.method = "list"
             THEN [name |-> "list", domain |-> main.args.domain]
             ELSE [name |-> "search", domain |-> main.args.domain,
                   page_size |-> DEFAULT_PAGE_SIZE, max_pages |-> DEFAULT_MAX_PAGES]
    /\ pc' = "done"
    /\ UNCHANGED <<client, stdout, outfile>>
    /\ UNCHANGED Library

\* lines 205-207
MainPrint ==
    /\ main.stage = "ran"
    /\ stdout' = stdout \o StdoutOf(result.hosts, main.args.domain, main.args.method)
    /\ main' = [main EXCEPT !.stage = "printed"]
    /\ UNCHANGED <<client, pc, op, result, outfile>>
    /\ UNCHANGED Library

\* lines 210-212: with a truthy --out the file is written and confirmed, or
\* open() raises and the process ends with status 1; then the script ends
MainSave ==
    /\ main.stage = "printed"
    /\ IF Truthy(main.args.out)
       THEN \/ /\ outfile' = SavedFile(result.hosts)
               /\ stdout' = Append(stdout, SavedLine(main.args.out.v))
               /\ main' = [main EXCEPT !.stage = "exited", !.exit = 0]
            \/ /\ main' = [main EXCEPT !.stage = "exited", !.exit = 1]
               /\ UNCHANGED <<stdout, outfile>>
       ELSE /\ main' = [main EXCEPT !.stage = "exited", !.exit = 0]
            /\ UNCHANGED <<stdout, outfile>>
    /\ UNCHANGED <<client, pc, op, result>>
    /\ UNCHANGED Library

NextCli ==
    \/ MainConstruct
    \/ MainRun
    \/ MainPrint
    \/ MainSave

SpecCli == InitCli /\ [][NextCli]_vars

----------------------------------------------------------------------------
(* Vocabulary of the properties *)

Last(s) == s[Len(s)]
Front(s) == SubSeq(s, 1, Len(s) - 1)
Kinds(rs) == {rs[i].kind : i \in 1..Len(rs)}

InRequestLayer == req.verb # "none"
Finished(name) == pc = "done" /\ op.name = name
ReturnedFrom(name) == Finished(name) /\ result.status = "returned"
Fetched == Len(responses) > 0 /\ Last(responses).kind = "200"

\* strictly increasing in Python's str order: sorted and duplicate-free
StrictlySorted(hosts) ==
    \A i, j \in 1..Len(hosts) : i < j => LexLess(hosts[i], hosts[j])

Linear(backoff, k) == [i \in 1..k |-> backoff * i]

\* the records of a page, when it has the expected shape
RecordsOf(page) ==
    IF page.t = "doc" /\ "records" \in DOMAIN page.v /\ page.v.records.t = "list"
    THEN page.v.records.v ELSE <<>>
AllRecords(pages) == UNION {Range(RecordsOf(pages[i])) : i \in 1..Len(pages)}
Field(r, k) == IF r.t = "doc" /\ k \in DOMAIN r.v THEN r.v[k] ELSE JNull
NonEmptyStr(x) == x.t = "str" /\ x.v # <<>>

----------------------------------------------------------------------------
\* C1: searching example.com, a record with hostname evil-example.com is never
\* in the returned list, and a record with hostname api.example.com on a
\* fetched page always is.
C1_ApexFilter ==
    ReturnedFrom("search") /\ op.domain = example_com =>
        /\ evil_example_com \notin Range(result.hosts)
        /\ (\E r \in AllRecords(delivered) : Field(r, "hostname") = JStr(api_example_com))
               => api_example_com \in Range(result.hosts)

\* C2: no page request follows a page that returned zero records, at most
\* max_pages requests are issued, and a search that returns before max_pages
\* requests has just fetched a page with zero records: a page with records
\* never stops pagination, whatever the filter does to them.
C2_PaginationTermination ==
    op.name = "search" =>
        /\ Len(sent) <= op.max_pages
        /\ \A i \in 1..Len(delivered) : i < Len(sent) => RecordsOf(delivered[i]) # <<>>
        /\ ReturnedFrom("search") /\ Len(sent) < op.max_pages =>
               /\ Len(delivered) = Len(sent)
               /\ RecordsOf(Last(delivered)) = <<>>

\* page 3 is the first page without records, none of page 2's records passes
\* the filter, and max_pages is larger: three requests, then the return
C2_Witness ==
    /\ ReturnedFrom("search")
    /\ op.max_pages = 4
    /\ Len(sent) = 3
    /\ RecordsOf(delivered[3]) = <<>>
    /\ delivered[2] = JDoc([records |-> JList(<<JDoc([hostname |-> JStr(api_org)])>>)])

\* C3: with retries = N, no more than N attempts are ever made; once N
\* attempts have failed (non-200 status or transport fault) the call has
\* raised the exhaustion error; it is raised after exactly N attempts; and a
\* call whose attempts all failed has returned nothing.
C3_RetryExhaustion ==
    InRequestLayer =>
        /\ Len(responses) <= req.retries
        /\ Kinds(responses) \subseteq {"429", "error", "other", "fault"}
           /\ Len(responses) = req.retries
               => pc = "done" /\ result = Raised("RuntimeError")
        /\ pc = "done" /\ result.error = "RuntimeError" => Len(responses) = req.retries
        /\ Kinds(responses) \subseteq {"429", "error", "other", "fault"}
               => result.status # "returned"

C3_Witness ==
    /\ Finished("_post")
    /\ req.retries = 3
    /\ Len(responses) = 3
    /\ Kinds(responses) = {"fault", "other", "error"}
    /\ result = Raised("RuntimeError")

\* C4: after k failures that are a 429, an error status or a transport fault,
\* the call has slept exactly backoff*1, ..., backoff*k; a 200 answered next
\* ends the call after k+1 <= retries attempts with the 200 payload returned,
\* and the sleeps are strictly increasing when backoff > 0.
C4_RetryThenSuccess ==
    InRequestLayer =>
        /\ Kinds(responses) \subseteq {"429", "error", "fault"}
               => sleeps = Linear(req.backoff, Len(responses))
        /\ Fetched /\ Kinds(Front(responses)) \subseteq {"429", "error", "fault"} =>
               /\ pc = "done"
               /\ Len(responses) <= req.retries
               /\ sleeps = Linear(req.backoff, Len(responses) - 1)
               /\ req.backoff > 0 =>
                      \A i, j \in 1..Len(sleeps) : i < j => sleeps[i] < sleeps[j]
               /\ op.name \in {"_get", "_post"} =>
                      result = Returned(<<>>, Last(responses).body)
               /\ op.name = "list" /\ result.status = "returned" =>
                      result.raw = Last(responses).body

\* 429 twice, then 200
C4_Witness ==
    /\ Finished("_get")
    /\ req.retries = 3
    /\ req.backoff = 5
    /\ Len(responses) = 3
    /\ responses[1].kind = "429" /\ responses[2].kind = "429"
    /\ Fetched
    /\ sleeps = <<5, 10>>
    /\ result.status = "returned"

\* the fragments of a listing response of the expected shape
HasFragments(data) ==
    /\ data.t = "doc"
    /\ "subdomains" \in DOMAIN data.v
    /\ data.v.subdomains.t = "list"
    /\ \A x \in Range(data.v.subdomains.v) : x.t = "str"
Fragments(data) == {x.v : x \in Range(data.v.subdomains.v)}
Contributions(data, domain) ==
    {IF EndsWith(s, domain) THEN s ELSE s \o dot \o domain : s \in Fragments(data) \ {<<>>}}

\* C5: list_subdomains returns the sorted duplicate-free list of exactly: s for
\* every non-empty fragment s that ends with the domain, s + "." + domain for
\* every other non-empty fragment; ["www", "api.example.com", ""] for
\* example.com gives ["api.example.com", "www.example.com"].
C5_ListParsing ==
    Finished("list") /\ Fetched /\ HasFragments(Last(responses).body) =>
        /\ result.status = "returned"
        /\ Range(result.hosts) = Contributions(Last(responses).body, op.domain)
        /\ StrictlySorted(result.hosts)
        /\ op.domain = example_com
           /\ Last(responses).body.v.subdomains.v
                  = <<JStr(www), JStr(api_example_com), JStr(<<>>)>>
               => result.hosts = <<api_example_com, www_example_com>>

C5_Witness ==
    /\ ReturnedFrom("list")
    /\ op.domain = example_com
    /\ Fetched
    /\ Last(responses).body
           = JDoc([subdomains |-> JList(<<JStr(www), JStr(api_example_com), JStr(<<>>)>>)])
    /\ result.hosts = <<api_example_com, www_example_com>>

\* C6: a discovery operation whose response was fetched (status 200, decoded)
\* does not raise, whatever the shape of the response.
C6_MalformedIsSoft ==
    pc = "done" /\ op.name \in {"list", "search"} /\ Fetched
        => result.status = "returned"

\* the elements of an argument of merge_sources
Elements(l) == IF l.t = "list" THEN Range(l.v) ELSE {}
Reverse(s) == [i \in 1..Len(s) |-> s[Len(s) + 1 - i]]

\* C7: merge_sources gives the same list for its arguments in the opposite
\* order, for an argument given twice, and for its own output; the output
\* holds exactly the union of the arguments' elements, sorted, without
\* duplicates.
C7_MergeSources ==
    Finished("merge") =>
        /\ result.hosts = merge_sources(Reverse(op.lists))
        /\ \A i \in 1..Len(op.lists) :
               merge_sources(<<op.lists[i], op.lists[i]>>) = merge_sources(<<op.lists[i]>>)
        /\ merge_sources(<<JList(result.hosts)>>) = result.hosts
        /\ Range(result.hosts) = UNION {Elements(op.lists[i]) : i \in 1..Len(op.lists)}
        /\ StrictlySorted(result.hosts)

C7_Witness ==
    /\ Finished("merge")
    /\ op.lists = <<JList(<<api_example_com, API_example_com>>),
                    JList(<<api_example_com, api_example_com>>)>>
    /\ result.hosts = <<API_example_com, api_example_com>>

\* C8: construction fails, with the configuration error and without a client,
\* exactly when neither the argument nor the environment variable is a
\* non-empty string; otherwise the credential is the argument when that is
\* non-empty, else the environment's value; no client holds an empty credential.
C8_Credential ==
    /\ client # NoClient => client.api_key # <<>>
    /\ op.name = "__init__" =>
        /\ pc = "failed" <=> ~NonEmptyStr(op.api_key) /\ ~NonEmptyStr(op.environ)
        /\ pc = "failed" => client = NoClient /\ result = Raised("ValueError")
        /\ pc # "failed" =>
               /\ client # NoClient
               /\ client.api_key = IF NonEmptyStr(op.api_key) THEN op.api_key.v
                                   ELSE op.environ.v

\* an empty argument falls back to the environment
C8_Witness ==
    /\ op.name = "__init__"
    /\ op.api_key = JStr(<<>>)
    /\ pc = "idle"
    /\ client.api_key = key_env

\* what a returned discovery operation had to list
Expected ==
    IF op.name = "list"
    THEN IF HasFragments(Last(responses).body)
         THEN Contributions(Last(responses).body, op.domain) ELSE {}
    ELSE {h.v : h \in {x \in {IF NonEmptyStr(Field(r, "hostname"))
                              THEN Field(r, "hostname") ELSE Field(r, "domain") :
                              r \in AllRecords(delivered)} :
                       NonEmptyStr(x) /\ EndsWith(x.v, op.domain)}}

\* C9: the list a discovery operation returns is strictly increasing in code
\* point order (sorted, no duplicate) and has one entry per distinct string:
\* hostnames that differ only in case are both kept.
C9_SortedNoDuplicates ==
    (ReturnedFrom("list") \/ ReturnedFrom("search")) =>
        /\ StrictlySorted(result.hosts)
        /\ Len(result.hosts) = Cardinality(Expected)

C9_Witness ==
    /\ ReturnedFrom("list")
    /\ result.hosts = <<API_example_com, api_example_com>>

\* C10 as stated: the returned set is the set of `hostname` values, or of
\* `domain` values of records without a `hostname` field, that end with the
\* target domain; the raw document holds the page responses in request order.
C10_AggregateHostnameIfPresent ==
    ReturnedFrom("search") =>
        /\ Range(result.hosts) =
               {h.v : h \in {x \in {IF r.t = "doc" /\ "hostname" \in DOMAIN r.v
                                    THEN r.v.hostname ELSE Field(r, "domain") :
                                    r \in AllRecords(delivered)} :
                             x.t = "str" /\ EndsWith(x.v, op.domain)}}
        /\ result.raw = JDoc([pages |-> JList(delivered)])
        /\ Len(delivered) = Len(sent)

\* C10 amended: the returned set is the set of non-empty strings h ending with
\* the target domain such that some record of a fetched page has h as its
\* `hostname` when that field is present and non-empty, else as its `domain`;
\* the raw document holds the page responses in request order, one per request.
C10_Aggregate ==
    ReturnedFrom("search") =>
        /\ Range(result.hosts) =
               {h.v : h \in {x \in {IF NonEmptyStr(Field(r, "hostname"))
                                    THEN Field(r, "hostname") ELSE Field(r, "domain") :
                                    r \in AllRecords(delivered)} :
                             NonEmptyStr(x) /\ EndsWith(x.v, op.domain)}}
        /\ result.raw = JDoc([pages |-> JList(delivered)])
        /\ Len(delivered) = Len(sent)

\* a record with an empty hostname is listed under its domain; one with a
\* hostname is not
C10_Witness ==
    /\ ReturnedFrom("search")
    /\ op.domain = example_com
    /\ Len(delivered) = 2
    /\ \E r \in AllRecords(delivered) :
           /\ Field(r, "hostname") = JStr(<<>>)
           /\ Field(r, "domain") = JStr(www_example_com)
    /\ www_example_com \in Range(result.hosts)
    /\ example_com \notin Range(result.hosts)

Count(rs, kinds) == Cardinality({i \in 1..Len(rs) : rs[i].kind \in kinds})

\* C11 as stated: 429 responses do not count against the N attempts, so the
\* exhaustion error is raised only after N failures other than a 429.
C11_RateLimitIsFree ==
    InRequestLayer /\ pc = "done" /\ result.error = "RuntimeError"
        => Count(responses, {"error", "other", "fault", "badjson"}) = req.retries

\* C11 amended: every response, a 429 included, uses up one of the N attempts;
\* N answers of 429 end the call with the exhaustion error, and at exhaustion
\* the 429s and the other failures together number N.
C11_RateLimitCounts ==
    InRequestLayer =>
        /\ pc = "request" => attempt = Len(responses) + 1
        /\ Kinds(responses) = {"429"} /\ Len(responses) = req.retries
               => pc = "done" /\ result = Raised("RuntimeError")
        /\ pc = "done" /\ result.error = "RuntimeError" =>
               Count(responses, {"429"})
                   + Count(responses, {"error", "other", "fault", "badjson"}) = req.retries

\* three answers of 429 exhaust retries = 3
C11_Witness ==
    /\ Finished("_get")
    /\ req.retries = 3
    /\ Len(responses) = 3
    /\ Kinds(responses) = {"429"}
    /\ result = Raised("RuntimeError")

\* C12: every attempt a that ends in a non-200, non-429 status (204 and 304
\* included) or in a transport fault is followed by a sleep of backoff * a, so
\* no two attempts are issued back to back.
C12_BackoffOnEveryFailure ==
    InRequestLayer /\ Kinds(responses) \subseteq {"error", "other", "fault"}
        => sleeps = Linear(req.backoff, Len(responses))

\* C13: the i-th page request of a search carries page = i, limit = page_size
\* and the apex_domain filter; at most max_pages are issued; every attempt of
\* the request in progress posts the body of the latest page; and a page is
\* requested only after every earlier page was returned with a record in it.
C13_PageOrder ==
    op.name = "search" =>
        /\ Len(sent) <= op.max_pages
        /\ \A i \in 1..Len(sent) :
               sent[i] = JDoc([filter |-> JDoc([apex_domain |-> JStr(op.domain)]),
                               limit |-> JNum(op.page_size), page |-> JNum(i)])
        /\ pc = "request" =>
               /\ req.verb = "POST"
               /\ req.body = Last(sent)
               /\ Len(delivered) = Len(sent) - 1
        /\ \A i \in 1..(Len(sent) - 1) :
               i <= Len(delivered) /\ RecordsOf(delivered[i]) # <<>>

\* the third page of a search with page_size 1 is being requested
C13_Witness ==
    /\ op.name = "search"
    /\ op.page_size = 1
    /\ pc = "request"
    /\ Len(sent) = 3
    /\ Len(responses) = 1
    /\ req.body.v.page = JNum(3)
    /\ req.body.v.limit = JNum(1)

\* C14: when the request of list_subdomains, or the request for page j of
\* search_subdomains, has used up its retries, the operation has raised the
\* exhaustion error and carries no result (no hostname of pages 1..j-1, no raw
\* document), and page j is the last page that was requested.
C14_ExhaustionPropagates ==
    /\ pc = "done"
    /\ op.name \in {"list", "search"}
    /\ InRequestLayer
    /\ Len(responses) = req.retries
    /\ Kinds(responses) \subseteq {"429", "error", "other", "fault"}
    =>  /\ result.status = "raised"
        /\ result.error = "RuntimeError"
        /\ result.hosts = <<>>
        /\ result.raw = JNull
        /\ op.name = "search" => Len(sent) = Len(delivered) + 1

\* page 2 is exhausted after page 1 had contributed hostnames
C14_Witness ==
    /\ Finished("search")
    /\ Len(sent) = 2
    /\ Len(delivered) = 1
    /\ all_subdomains # {}
    /\ Len(responses) = 3
    /\ "200" \notin Kinds(responses)
    /\ result = Raised("RuntimeError")

\* C15: every pause lasts 0.3; while page i is being requested exactly i - 1
\* pauses have been taken, one between every two consecutive page requests;
\* and when the call ends no pause has followed its last page request.
C15_PauseOnlyBetweenPages ==
    op.name = "search" /\ Len(sent) > 0 =>
        /\ \A i \in 1..Len(pauses) : pauses[i] = PAGE_PAUSE
        /\ pc = "request" => Len(pauses) = Len(sent) - 1
        /\ pc = "done" => Len(pauses) = Len(sent) - 1

\* HTTP attempts the operation in progress may still make: the attempts left
\* for this request plus `retries` for every page not yet requested
Budget ==
    IF ~InRequestLayer THEN 0
    ELSE (req.retries - Len(responses))
         + (IF op.name = "search" THEN (op.max_pages - Len(sent)) * req.retries ELSE 0)

\* C16: an operation starts with a budget of retries (list_subdomains) or
\* max_pages * retries (search_subdomains) HTTP attempts; while it runs the
\* budget is positive, and every answer of the transport either ends the
\* operation or lowers the budget: no sequence of answers keeps it running.
C16_Terminates ==
    /\ [](pc = "request" =>
            /\ Budget > 0
            /\ Budget <= (IF op.name = "search" THEN op.max_pages ELSE 1) * req.retries)
    /\ [][pc = "request" => pc' = "done" \/ Budget' < Budget]_vars

\* a search that used its whole budget on the last page
C16_Witness ==
    /\ Finished("search")
    /\ op.max_pages = 2
    /\ Len(sent) = 2
    /\ Len(responses) = req.retries
    /\ Budget = 0
    /\ result = Raised("RuntimeError")

\* C17: a client holds a non-empty credential, a base URL without trailing
\* slash and its timeout, and no step taken on a constructed client (a call,
\* an answer of the transport, a return or a raise) changes any of them.
C17_ConfigurationFixed ==
    /\ [](client # NoClient =>
            /\ client.api_key \in {key_arg, key_env}
            /\ client.base = base_u
            /\ client.timeout = DEFAULT_TIMEOUT)
    /\ [][client # NoClient => client' = client]_vars

\* a client built from the environment's credential, after an operation raised
C17_Witness ==
    /\ Finished("list")
    /\ result.status = "raised"
    /\ client.api_key = key_env
    /\ client.base = base_u

RECURSIVE Sum(_)
Sum(s) == IF s = <<>> THEN 0 ELSE s[1] + Sum(Tail(s))

\* C19: when all N attempts failed with a 429, a 4xx/5xx status or a transport
\* fault, the exhaustion error is raised after N sleeps, the last of them
\* backoff * N after the final attempt, backoff * N * (N + 1) / 2 in total.
C19_SleepsBeforeExhaustion ==
    /\ InRequestLayer
    /\ pc = "done"
    /\ result.error = "RuntimeError"
    /\ Kinds(responses) \subseteq {"429", "error", "fault"}
    =>  /\ Len(sleeps) = req.retries
        /\ req.retries > 0 => Last(sleeps) = req.backoff * req.retries
        /\ 2 * Sum(sleeps) = req.backoff * req.retries * (req.retries + 1)

C19_Witness ==
    /\ Finished("_post")
    /\ req.retries = 3
    /\ req.backoff = DEFAULT_BACKOFF
    /\ Kinds(responses) = {"429", "error", "fault"}
    /\ sleeps = <<10, 20, 30>>
    /\ result = Raised("RuntimeError")

Written == outfile \notin {Absent, OldFile}
HostLines == {i \in 1..Len(stdout) : stdout[i].line = "host"}

\* C18: the selected operation runs at most once, and exactly once, returning,
\* before anything is printed or the process ends with status 0; the output
\* starts with the count line, followed by the returned hostnames in their
\* sorted order; the --out file is written only with --out given, after the
\* operation has returned and the hostnames were printed; and a run whose
\* construction or operation failed has ended with a non-zero status, no
\* hostname printed and the --out file as it was.
C18_CommandLineRun ==
    main.stage # "none" =>
        /\ main.runs <= 1
        /\ main.runs = 1 => op.name = main.args.method /\ pc = "done"
        /\ main.exit = 0 \/ stdout # <<>> =>
               main.runs = 1 /\ result.status = "returned"
        /\ stdout # <<>> =>
               /\ stdout[1] = CountLine(Len(result.hosts), main.args.domain,
                                        main.args.method)
               /\ HostLines = 2..(Len(result.hosts) + 1)
               /\ \A i \in 1..Len(result.hosts) : stdout[i + 1].text = result.hosts[i]
               /\ StrictlySorted(result.hosts)
        /\ Written =>
               /\ main.args.out = JStr(out_path)
               /\ result.status = "returned"
               /\ HostLines # {} \/ result.hosts = <<>>
               /\ stdout # <<>>
               /\ outfile.lines = result.hosts
        /\ pc = "failed" \/ result.status = "raised" =>
               /\ main.stage = "exited"
               /\ main.exit > 0
               /\ stdout = <<>>
               /\ ~Written

\* a search run with --out that printed and saved two hostnames or more
C18_Witness ==
    /\ main.stage = "exited"
    /\ main.exit = 0
    /\ main.args.method = "search"
    /\ Len(result.hosts) >= 2
    /\ Len(stdout) = Len(result.hosts) + 2
    /\ outfile = SavedFile(result.hosts)

====
